---- MODULE Spec2Model ----
(***************************************************************************)
(* Alert-archive ingestion pipeline of lps23_frontend.                     *)
(*                                                                         *)
(*   app/components/SachetUploadPanel.tsx  handleFileChange, reader.onload *)
(*                                         (pipeline controller), clearFile*)
(*   app/utils/xmlParser.ts                parseCapXml (document parser)   *)
(*   app/map/page.tsx (Home)               the sink, setSachetGeoJSONData  *)
(*                                                                         *)
(* JavaScript runs every handler to completion; a handler gives up control *)
(* only at an await.  One action of the model is therefore one stretch of  *)
(* code between two awaits (or between an event and the next await).       *)
(***************************************************************************)
EXTENDS Integers, Sequences, FiniteSets, TLC

(***************************************************************************)
(* Bounds                                                                  *)
(***************************************************************************)
\* number of uploads (runs of handleFileChange that reach the FileReader)
MaxRuns == 2

\* number of uploads in the behaviours checked for termination
MaxFairRuns == 1

RunIds == 1..MaxRuns

(***************************************************************************)
(* Strings as sequences of characters, so that toLowerCase and endsWith    *)
(* are computed and not assumed.                                           *)
(***************************************************************************)
UpperChars == <<"A","B","C","D","E","F","G","H","I","J","K","L","M",
                "N","O","P","Q","R","S","T","U","V","W","X","Y","Z">>
LowerChars == <<"a","b","c","d","e","f","g","h","i","j","k","l","m",
                "n","o","p","q","r","s","t","u","v","w","x","y","z">>

toLowerCaseChar(c) ==
  IF \E i \in 1..26 : UpperChars[i] = c
  THEN LowerChars[CHOOSE i \in 1..26 : UpperChars[i] = c]
  ELSE c

toLowerCase(s) == [i \in 1..Len(s) |-> toLowerCaseChar(s[i])]

endsWith(s, suffix) ==
  /\ Len(s) >= Len(suffix)
  /\ SubSeq(s, Len(s) - Len(suffix) + 1, Len(s)) = suffix

DotXml == <<".", "x", "m", "l">>
DotZip == <<".", "z", "i", "p">>

(***************************************************************************)
(* Numbers.  Number(s) of JavaScript on the component strings that occur   *)
(* in the documents below: a decimal literal is its value, the empty       *)
(* string is 0, "Infinity" is the infinite value, a missing component      *)
(* (undefined) and any other text are NaN.                                 *)
(***************************************************************************)
NaN == [k |-> "NaN", v |-> 0]
Infinity == [k |-> "Infinity", v |-> 0]
Num(n) == [k |-> "num", v |-> n]
\* the decimal m / 10^d, for literals with a fraction
Dec(m, d) == [k |-> "num", v |-> m, d |-> d]
Undefined == "undefined"

Number(s) ==
  CASE s = "0"  -> Num(0)
    [] s = "1"  -> Num(1)
    [] s = "10" -> Num(10)
    [] s = "11" -> Num(11)
    [] s = "20" -> Num(20)
    [] s = "21" -> Num(21)
    [] s = "28.6139" -> Dec(286139, 4)
    [] s = "77.2090" -> Dec(77209, 3)
    [] s = ""   -> Num(0)
    [] s = "Infinity" -> Infinity
    [] OTHER    -> NaN

isNaN(x) == x.k = "NaN"

(***************************************************************************)
(* parseCapXml.  A document is the DOM that DOMParser builds from the      *)
(* entry's text:                                                           *)
(*   [wellFormed, hasAlert, identifier, infos]                             *)
(*   info  = [event, areas]                                                *)
(*   area  = [areaDesc, polygons]                                          *)
(*   a polygon is the text of one polygon element: the sequence of its     *)
(*   whitespace-separated tokens, a token being the sequence of its        *)
(*   comma-separated components (what pair.split(',') returns).            *)
(***************************************************************************)
RECURSIVE Concat(_)
Concat(ss) == IF ss = <<>> THEN <<>> ELSE Head(ss) \o Concat(Tail(ss))

\* x || undefined
OrUndefined(text) == IF text = "" THEN Undefined ELSE text

\* lines 88-90: the polygon elements' trimmed text, empty ones filtered out
polygonStrings(area) == SelectSeq(area.polygons, LAMBDA p : p # <<>>)

\* variant: the pair is kept in input order
parsePair_NoSwap(pair) ==
  LET lat == IF Len(pair) >= 1 THEN Number(pair[1]) ELSE NaN
      lng == IF Len(pair) >= 2 THEN Number(pair[2]) ELSE NaN
  IN  IF isNaN(lat) \/ isNaN(lng) THEN <<>> ELSE <<lat, lng>>

\* lines 107-113: one token to a [lng, lat] position, or null
NullCoord == <<>>
parsePair(pair) ==
  LET lat == IF Len(pair) >= 1 THEN Number(pair[1]) ELSE NaN
      lng == IF Len(pair) >= 2 THEN Number(pair[2]) ELSE NaN
  IN  IF isNaN(lat) \/ isNaN(lng) THEN NullCoord ELSE <<lng, lat>>

\* lines 107-114: the positions of a polygon string, nulls filtered out
parseCoordinates(polyStr) ==
  SelectSeq([i \in 1..Len(polyStr) |-> parsePair(polyStr[i])],
            LAMBDA c : c # NullCoord)

\* variant: the ring is left as it is
closeRing_Never(coordinates) == coordinates

\* variant: the first position is appended in every case
closeRing_Always(coordinates) ==
  IF Len(coordinates) > 0 THEN Append(coordinates, coordinates[1]) ELSE coordinates

\* lines 121-128: append the first position when the ring is not closed
closeRing(coordinates) ==
  IF Len(coordinates) > 0
  THEN LET first == coordinates[1]
           last  == coordinates[Len(coordinates)]
       IN  IF first[1] # last[1] \/ first[2] # last[2]
           THEN Append(coordinates, <<first[1], first[2]>>)
           ELSE coordinates
  ELSE coordinates

\* variant: two positions are enough
polygonOf_MinTwo(polyStr) ==
  LET coordinates == parseCoordinates(polyStr)
  IN  IF Len(coordinates) < 2 THEN <<>> ELSE << <<closeRing(coordinates)>> >>

\* lines 106-131: what one polygon string adds to geoJsonPolygons
polygonOf(polyStr) ==
  LET coordinates == parseCoordinates(polyStr)
  IN  IF Len(coordinates) < 3 THEN <<>> ELSE << <<closeRing(coordinates)>> >>

\* lines 104-131
geoJsonPolygonsOf(polyStrs) ==
  Concat([i \in 1..Len(polyStrs) |-> polygonOf(polyStrs[i])])

NullGeometry == [type |-> "null", coordinates |-> <<>>]

\* variant: the rings of several polygon strings become one polygon with holes
geometryOf_Holes(geoJsonPolygons) ==
  IF Len(geoJsonPolygons) = 1
  THEN [type |-> "Polygon", coordinates |-> geoJsonPolygons[1]]
  ELSE [type |-> "MultiPolygon", coordinates |-> <<Concat(geoJsonPolygons)>>]

\* variant: a MultiPolygon in every case
geometryOf_AlwaysMulti(geoJsonPolygons) ==
  [type |-> "MultiPolygon", coordinates |-> geoJsonPolygons]

\* lines 137-148
geometryOf(geoJsonPolygons) ==
  IF Len(geoJsonPolygons) = 1
  THEN [type |-> "Polygon", coordinates |-> geoJsonPolygons[1]]
  ELSE [type |-> "MultiPolygon", coordinates |-> geoJsonPolygons]

\* variant: the info-level fields are looked up from the alert element, which
\* finds those of the first info element
makeFeature_AlertScope(doc, i, a, geometry) ==
  [identifier |-> OrUndefined(doc.identifier),
   event      |-> OrUndefined(doc.infos[1].event),
   areaDesc   |-> OrUndefined(doc.infos[i].areas[a].areaDesc),
   info       |-> i,
   area       |-> a,
   geometry   |-> geometry]

\* lines 95-99 and 150-154; info and area are the positions of the info and of
\* the area element in document order (not properties of the feature in the
\* code: they record which elements the feature was built from)
makeFeature(doc, i, a, geometry) ==
  [identifier |-> OrUndefined(doc.identifier),
   event      |-> OrUndefined(doc.infos[i].event),
   areaDesc   |-> OrUndefined(doc.infos[i].areas[a].areaDesc),
   info       |-> i,
   area       |-> a,
   geometry   |-> geometry]

\* lines 83-155: the features one area element pushes
areaFeatures(doc, i, a) ==
  LET area     == doc.infos[i].areas[a]
      areaDesc == OrUndefined(area.areaDesc)
      polyStrs == polygonStrings(area)
      geoJsonPolygons == geoJsonPolygonsOf(polyStrs)
  IN  IF Len(polyStrs) = 0
      THEN IF areaDesc # Undefined
           THEN <<makeFeature(doc, i, a, NullGeometry)>>
           ELSE <<>>
      ELSE IF Len(geoJsonPolygons) = 0
           THEN <<>>
           ELSE <<makeFeature(doc, i, a, geometryOf(geoJsonPolygons))>>

\* lines 65-156: the features one info element pushes
infoFeatures(doc, i) ==
  Concat([a \in 1..Len(doc.infos[i].areas) |-> areaFeatures(doc, i, a)])

\* variant: the info elements are walked without looking for the alert
parseCapXml_NoAlertCheck(doc) ==
  IF ~doc.wellFormed THEN <<>>
  ELSE Concat([i \in 1..Len(doc.infos) |-> infoFeatures(doc, i)])

\* lines 35-159
parseCapXml(doc) ==
  IF ~doc.wellFormed THEN <<>>
  ELSE IF ~doc.hasAlert THEN <<>>
  ELSE Concat([i \in 1..Len(doc.infos) |-> infoFeatures(doc, i)])

(***************************************************************************)
(* The documents and archives the uploads are drawn from.                  *)
(***************************************************************************)
Tok(lat, lng) == <<lat, lng>>

\* "10,20 11,21 10,21 10,20" (closed) and "0,0 1,0 1,1 0,0" (closed)
PolyClosedA == <<Tok("10","20"), Tok("11","21"), Tok("10","21"), Tok("10","20")>>
PolyClosedB == <<Tok("0","0"), Tok("1","0"), Tok("1","1"), Tok("0","0")>>
\* "0,0 1,0 1,1" (not closed)
PolyOpen    == <<Tok("0","0"), Tok("1","0"), Tok("1","1")>>
\* "0,0 x,1 1,1" (two valid pairs only)
PolyShort   == <<Tok("0","0"), Tok("x","1"), Tok("1","1")>>

\* one alert, one info, one area, two polygons
DocA == [wellFormed |-> TRUE, hasAlert |-> TRUE, identifier |-> "A",
         infos |-> << [event |-> "flood",
                       areas |-> << [areaDesc |-> "north",
                                     polygons |-> <<PolyClosedA, PolyClosedB>>] >>] >>]
\* not well-formed markup
DocB == [wellFormed |-> FALSE, hasAlert |-> FALSE, identifier |-> "", infos |-> <<>>]
\* two infos; areas with one open polygon, with no polygon, with a short one
DocC == [wellFormed |-> TRUE, hasAlert |-> TRUE, identifier |-> "C",
         infos |-> << [event |-> "storm",
                       areas |-> << [areaDesc |-> "east", polygons |-> <<PolyOpen>>],
                                    [areaDesc |-> "west", polygons |-> <<>>] >>],
                      [event |-> "heat",
                       areas |-> << [areaDesc |-> "", polygons |-> <<>>],
                                    [areaDesc |-> "south", polygons |-> <<PolyShort, PolyClosedB>>] >>] >>]
\* an alert without info elements
DocD == [wellFormed |-> TRUE, hasAlert |-> TRUE, identifier |-> "D", infos |-> <<>>]
\* well-formed, no alert element
DocE == [wellFormed |-> TRUE, hasAlert |-> FALSE, identifier |-> "", infos |-> <<>>]
\* one info, one area, one closed polygon
DocF == [wellFormed |-> TRUE, hasAlert |-> TRUE, identifier |-> "F",
         infos |-> << [event |-> "fire",
                       areas |-> << [areaDesc |-> "", polygons |-> <<PolyClosedA>>] >>] >>]

Documents == {DocA, DocB, DocC, DocD, DocE, DocF}

\* line 67: parseCapXml(xmlContent), for the text of each of these documents
parsedFeaturesOf == [doc \in Documents |-> parseCapXml(doc)]

(***************************************************************************)
(* Archives.  zip.files after JSZip.loadAsync, in the order in which       *)
(* for...in and zip.forEach enumerate it: the order in which loadAsync     *)
(* inserted the entries, that is the archive's own order.  corrupt = the   *)
(* entry's data cannot be inflated, so zipEntry.async('string') rejects.   *)
(***************************************************************************)
Entry(name, doc) == [name |-> name, dir |-> FALSE, corrupt |-> FALSE, doc |-> doc]
Corrupt(name)    == [name |-> name, dir |-> FALSE, corrupt |-> TRUE,  doc |-> DocE]
Dir(name)        == [name |-> name, dir |-> TRUE,  corrupt |-> FALSE, doc |-> DocE]

NameAXml   == <<"a", ".", "x", "m", "l">>
NameBXML   == <<"b", ".", "X", "M", "L">>
NameCXml   == <<"c", ".", "x", "m", "l">>
NameDXml   == <<"d", ".", "X", "m", "l">>
NameEXml   == <<"e", ".", "x", "m", "l">>
NameFXml   == <<"z", "/", "f", ".", "x", "m", "l">>
NameTxt    == <<"r", ".", "t", "x", "t">>
NameXmlBak == <<"a", ".", "x", "m", "l", "~">>
NameDirXml == <<"z", ".", "x", "m", "l", "/">>
NameDir    == <<"z", "/">>

\* the uploaded files: [name, valid, files]
\* File1: the scenario of the specification (a.xml with a MultiPolygon, b.xml
\* malformed), with a directory and a text file around them
File1 == [name |-> <<"1", ".", "z", "i", "p">>, valid |-> TRUE,
          files |-> <<Dir(NameDir), Entry(NameAXml, DocA), Entry(NameTxt, DocE),
                      Entry(NameBXML, DocB)>>]
\* File2: names out of alphabetical order, a corrupt entry in the middle
File2 == [name |-> <<"2", ".", "z", "i", "p">>, valid |-> TRUE,
          files |-> <<Entry(NameFXml, DocF), Corrupt(NameEXml), Entry(NameCXml, DocC)>>]
\* File3: a valid archive without candidate entries
File3 == [name |-> <<"3", ".", "z", "i", "p">>, valid |-> TRUE,
          files |-> <<Entry(NameTxt, DocA), Dir(NameDirXml), Entry(NameXmlBak, DocA)>>]
\* File4: not an archive
File4 == [name |-> <<"4", ".", "z", "i", "p">>, valid |-> FALSE, files |-> <<>>]
\* File5: candidate entries, none with features
File5 == [name |-> <<"5", ".", "z", "i", "p">>, valid |-> TRUE,
          files |-> <<Entry(NameBXML, DocB), Entry(NameDXml, DocD), Entry(NameEXml, DocE)>>]
\* File6: an archive whose name does not end in ".zip"
File6 == [name |-> <<"6", ".", "Z", "I", "P">>, valid |-> TRUE,
          files |-> <<Entry(NameAXml, DocA)>>]

Files == {File1, File2, File3, File4, File5, File6}

NoFile == [name |-> <<>>, valid |-> FALSE, files |-> <<>>]

(***************************************************************************)
(* The messages of setError                                                *)
(***************************************************************************)
Null == "null"
\* the null of fileName (line 16), a name being a sequence of characters
NullName == <<>>
ErrNotZip     == "Please upload a .zip file."
ErrNoXml      == "No XML files found in the zip archive."
ErrNoFeatures == "No valid geographic features found in the XML files."
ErrBadZip     == "Failed to process zip file. Please ensure it is a valid zip archive."
ErrRead       == "Failed to read the uploaded file."

(***************************************************************************)
(* The pieces of reader.onload                                             *)
(***************************************************************************)
\* variant: every buffer is taken for an archive
isValidArchive_Always(f) == TRUE

\* line 40: JSZip.loadAsync(buffer) resolves
isValidArchive(f) == f.valid

\* variant: includes('.xml') in place of endsWith('.xml')
isXmlEntry_Includes(entry) ==
  /\ ~entry.dir
  /\ \E i \in 1..Len(entry.name) :
       /\ i + 3 <= Len(entry.name)
       /\ SubSeq(toLowerCase(entry.name), i, i + 3) = DotXml

\* lines 46 and 64: !zipEntry.dir && relativePath.toLowerCase().endsWith('.xml')
isXmlEntry(entry) == ~entry.dir /\ endsWith(toLowerCase(entry.name), DotXml)

\* variant: the counting pass compares the name as it is written
countXmlFiles_CaseSensitive(files) ==
  Cardinality({i \in 1..Len(files) : ~files[i].dir /\ endsWith(files[i].name, DotXml)})

\* lines 42-49: the counting pass
countXmlFiles(files) == Cardinality({i \in 1..Len(files) : isXmlEntry(files[i])})

\* variant: the loop goes on with the last entry left instead of the next one
nextXmlEntry_Last(files, from) ==
  IF \E i \in (from + 1)..Len(files) : isXmlEntry(files[i])
  THEN CHOOSE i \in (from + 1)..Len(files) :
         /\ isXmlEntry(files[i])
         /\ \A j \in (i + 1)..Len(files) : ~isXmlEntry(files[j])
  ELSE 0

\* lines 61-64: the next entry, after position from, that the loop processes;
\* 0 when the loop is over
nextXmlEntry(files, from) ==
  IF \E i \in (from + 1)..Len(files) : isXmlEntry(files[i])
  THEN CHOOSE i \in (from + 1)..Len(files) :
         /\ isXmlEntry(files[i])
         /\ \A j \in (from + 1)..(i - 1) : ~isXmlEntry(files[j])
  ELSE 0

\* variant: an entry's error ends the loop
afterXmlError_Abort(files, from) == 0

\* lines 71-74: the catch logs the error and the loop goes on with the next entry
afterXmlError(files, from) == nextXmlEntry(files, from)

\* variant: the list of the run before is kept
newAllFeatures_Keep(prior) == prior

\* line 41: const allFeatures = [] ; prior is the list of the run before
newAllFeatures(prior) == <<>>

\* variant: unshift in place of push
pushFeatures_Unshift(all, parsedFeatures) == parsedFeatures \o all

\* line 68: allFeatures.push(...parsedFeatures)
pushFeatures(all, parsedFeatures) == all \o parsedFeatures

\* variant: the counter is advanced twice
incrementProcessed_Twice(n) == n + 2

\* line 69: currentProcessed++
incrementProcessed(n) == n + 1

\* variant: the empty-archive message is used for an empty result
finalError_SameMessage(all) == IF Len(all) > 0 THEN Null ELSE ErrNoXml

\* variant: no error is recorded after the hand-over
finalError_Never(all) == Null

\* lines 79-83: the error recorded after the hand-over
finalError(all) == IF Len(all) > 0 THEN Null ELSE ErrNoFeatures

\* variant: the sink merges into what is shown
setSachetGeoJSONData_Merge(shown, data) == shown \o data

\* Home, onGeoJSONDataProcessed={(data) => setSachetGeoJSONData(data)}
setSachetGeoJSONData(shown, data) == data

(***************************************************************************)
(* The prediction store, AuthContext.tsx lines 205-270 and 316-338.  A     *)
(* prediction is written as its day; the days are ISO dates of one length, *)
(* which sort() orders as the numbers 1..MaxDays that stand for them.      *)
(***************************************************************************)
\* number of different days among the predictions
MaxDays == 3
\* number of stored predictions, and of predictions in one bulk result
MaxPredictions == 3

Days == 1..MaxDays

\* the null of selectedDay (line 208); the indices are 0, 1, 2, ...
NullDay == -1

\* lines 211-214 and 325: Array.from(new Set(predictions.map(p => p.day))).sort()
RECURSIVE sortDays(_)
sortDays(S) ==
  IF S = {} THEN <<>>
  ELSE LET m == CHOOSE x \in S : \A y \in S : x <= y
       IN  <<m>> \o sortDays(S \ {m})

getUniqueDays(predictions) ==
  sortDays({predictions[i] : i \in 1..Len(predictions)})

\* lines 323-330: the entries [index, date, count] of the day selector
getAvailableDays(predictions) ==
  LET uniqueDays == getUniqueDays(predictions)
  IN  [k \in 1..Len(uniqueDays) |->
         [index |-> k - 1,
          date  |-> uniqueDays[k],
          count |-> Len(SelectSeq(predictions, LAMBDA d : d = uniqueDays[k]))]]

\* variant: the selected day is kept when a bulk result replaces the store
selectedDayAfterBulk_Keep(convertedResults, day) == day

\* lines 251-259: the first day is selected when the bulk result is not empty
selectedDayAfterBulk(convertedResults, day) ==
  IF Len(convertedResults) > 0 THEN 0 ELSE day

(***************************************************************************)
(* State                                                                   *)
(***************************************************************************)
VARIABLES
  \* SachetUploadPanel (useState, lines 14-18)
  loading, error, fileName, processedCount, totalXmlFiles,
  \* Home
  sachetGeoJSONData,
  \* one invocation of handleFileChange: where it is, its file, and the locals
  \* of reader.onload
  pc, file, allFeatures, xmlFileCount, currentProcessed, pos,
  \* history of each run: the arguments of its setProcessedCount,
  \* setTotalXmlFiles, setError (inside onload/onerror) and
  \* onGeoJSONDataProcessed calls, and the entries it has finished with
  progressLog, totalLog, errLog, sinkLog, handled,
  \* number of accepted uploads, and whether an upload
  \* or a clear happened while a run was in flight
  started, disturbed,
  \* one call of parseCapXml on its own: the document parsed from xmlString
  \* (line 37), the features array (line 38), and where the call is
  xmlDoc, features, parsePc,
  \* the prediction store (PredictionProvider): the stored predictions, each
  \* one written as its day, and the selected day index
  predictionResults, selectedDay

panelVars == <<loading, error, fileName, processedCount, totalXmlFiles>>
runVars   == <<pc, file, allFeatures, xmlFileCount, currentProcessed, pos>>
logVars   == <<progressLog, totalLog, errLog, sinkLog, handled>>
parseVars == <<xmlDoc, features, parsePc>>
uploadVars == <<panelVars, sachetGeoJSONData, runVars, logVars, started, disturbed>>
storeVars == <<predictionResults, selectedDay>>
vars == <<uploadVars, parseVars, storeVars>>

InFlight(r) == pc[r] \in {"reading", "loadAsync", "decoding"}
Terminal(r) == pc[r] \in {"done", "failed"}

\* the panel and the page after mounting, no upload yet
UploadInit ==
  /\ loading = FALSE
  /\ error = Null
  /\ fileName = NullName
  /\ processedCount = 0
  /\ totalXmlFiles = 0
  /\ sachetGeoJSONData = <<>>
  /\ pc = [r \in RunIds |-> "idle"]
  /\ file = [r \in RunIds |-> NoFile]
  /\ allFeatures = [r \in RunIds |-> <<>>]
  /\ xmlFileCount = [r \in RunIds |-> 0]
  /\ currentProcessed = [r \in RunIds |-> 0]
  /\ pos = [r \in RunIds |-> 0]
  /\ progressLog = [r \in RunIds |-> <<>>]
  /\ totalLog = [r \in RunIds |-> <<>>]
  /\ errLog = [r \in RunIds |-> <<>>]
  /\ sinkLog = [r \in RunIds |-> <<>>]
  /\ handled = [r \in RunIds |-> <<>>]
  /\ started = 0
  /\ disturbed = FALSE

\* AuthContext.tsx lines 206-208: the store after mounting
StoreInit ==
  /\ predictionResults = <<>>
  /\ selectedDay = NullDay

\* no call of parseCapXml outside the uploads
ParseIdle ==
  /\ xmlDoc = DocE
  /\ features = <<>>
  /\ parsePc = "idle"

Init ==
  /\ UploadInit
  /\ ParseIdle
  /\ StoreInit

(***************************************************************************)
(* handleFileChange, lines 20-102.  The handler has no await: it runs to   *)
(* its end, finally block included, before anything else happens.          *)
(***************************************************************************)
\* lines 24-27: the selected file is not named *.zip
RejectFile(f) ==
  /\ ~loading
  /\ ~endsWith(f.name, DotZip)
  /\ error' = ErrNotZip
  /\ UNCHANGED <<loading, fileName, processedCount, totalXmlFiles,
                 sachetGeoJSONData, runVars, logVars, started, disturbed>>
  /\ UNCHANGED <<parseVars, storeVars>>

\* lines 29-36 and 95-101: the upload is accepted and the read is started
HandleFileChange(r, f) ==
  /\ ~loading
  /\ r = started + 1
  /\ pc[r] = "idle"
  /\ endsWith(f.name, DotZip)
  /\ loading' = FALSE          \* setLoading(true) ... finally setLoading(false)
  /\ error' = Null
  /\ fileName' = f.name
  /\ processedCount' = 0
  /\ totalXmlFiles' = 0
  /\ pc' = [pc EXCEPT ![r] = "reading"]
  /\ file' = [file EXCEPT ![r] = f]
  /\ started' = r
  /\ disturbed' = (disturbed \/ \E s \in RunIds : InFlight(s))
  /\ UNCHANGED <<sachetGeoJSONData, allFeatures, xmlFileCount, currentProcessed,
                 pos, logVars>>
  /\ UNCHANGED <<parseVars, storeVars>>

\* lines 91-93: reader.onerror
ReaderOnError(r) ==
  /\ pc[r] = "reading"
  /\ error' = ErrRead
  /\ errLog' = [errLog EXCEPT ![r] = Append(@, ErrRead)]
  /\ pc' = [pc EXCEPT ![r] = "failed"]
  /\ UNCHANGED <<loading, fileName, processedCount, totalXmlFiles,
                 sachetGeoJSONData, file, allFeatures, xmlFileCount,
                 currentProcessed, pos, progressLog, totalLog, sinkLog, handled,
                 started, disturbed>>
  /\ UNCHANGED <<parseVars, storeVars>>

\* lines 37-40: reader.onload up to await JSZip.loadAsync(buffer)
ReaderOnLoad(r) ==
  /\ pc[r] = "reading"
  /\ pc' = [pc EXCEPT ![r] = "loadAsync"]
  /\ UNCHANGED <<panelVars, sachetGeoJSONData, file, allFeatures, xmlFileCount,
                 currentProcessed, pos, logVars, started, disturbed>>
  /\ UNCHANGED <<parseVars, storeVars>>

\* variant: the catch also hands the empty list to the sink
LoadAsyncReject_Clears(r) ==
  /\ pc[r] = "loadAsync"
  /\ ~isValidArchive(file[r])
  /\ error' = ErrBadZip
  /\ errLog' = [errLog EXCEPT ![r] = Append(@, ErrBadZip)]
  /\ sachetGeoJSONData' = setSachetGeoJSONData(sachetGeoJSONData, <<>>)
  /\ sinkLog' = [sinkLog EXCEPT ![r] = Append(@, <<>>)]
  /\ pc' = [pc EXCEPT ![r] = "failed"]
  /\ UNCHANGED <<loading, fileName, processedCount, totalXmlFiles,
                 file, allFeatures, xmlFileCount,
                 currentProcessed, pos, progressLog, totalLog, handled,
                 started, disturbed>>
  /\ UNCHANGED <<parseVars, storeVars>>

\* lines 85-88: loadAsync rejects
LoadAsyncReject(r) ==
  /\ pc[r] = "loadAsync"
  /\ ~isValidArchive(file[r])
  /\ error' = ErrBadZip
  /\ errLog' = [errLog EXCEPT ![r] = Append(@, ErrBadZip)]
  /\ pc' = [pc EXCEPT ![r] = "failed"]
  /\ UNCHANGED <<loading, fileName, processedCount, totalXmlFiles,
                 sachetGeoJSONData, file, allFeatures, xmlFileCount,
                 currentProcessed, pos, progressLog, totalLog, sinkLog, handled,
                 started, disturbed>>
  /\ UNCHANGED <<parseVars, storeVars>>

\* lines 77-83: after the loop
\* (part of the action that ends the loop; all is the final allFeatures)
Deliver(r, all) ==
  /\ sachetGeoJSONData' = setSachetGeoJSONData(sachetGeoJSONData, all)
  /\ sinkLog' = [sinkLog EXCEPT ![r] = Append(@, all)]
  /\ error' = finalError(all)
  /\ errLog' = [errLog EXCEPT ![r] = Append(@, finalError(all))]
  /\ pc' = [pc EXCEPT ![r] = "done"]
  /\ pos' = [pos EXCEPT ![r] = 0]

\* lines 61-66: the loop goes on to entry nxt and awaits zipEntry.async('string')
StartDecode(r, nxt) ==
  /\ pos' = [pos EXCEPT ![r] = nxt]
  /\ pc' = [pc EXCEPT ![r] = "decoding"]
  /\ UNCHANGED <<sachetGeoJSONData, sinkLog, error, errLog>>

\* lines 41-66: loadAsync resolves; counting pass; first entry
LoadAsyncResolve(r) ==
  /\ pc[r] = "loadAsync"
  /\ isValidArchive(file[r])
  /\ LET files == file[r].files
         count == countXmlFiles(files)
     IN  /\ allFeatures' = [allFeatures EXCEPT ![r] =
                              newAllFeatures(IF r > 1 THEN allFeatures[r - 1] ELSE <<>>)]
         /\ xmlFileCount' = [xmlFileCount EXCEPT ![r] = count]
         /\ totalXmlFiles' = count
         /\ totalLog' = [totalLog EXCEPT ![r] = Append(@, count)]
         /\ currentProcessed' = [currentProcessed EXCEPT ![r] = 0]
         /\ IF count = 0
            THEN /\ error' = ErrNoXml
                 /\ errLog' = [errLog EXCEPT ![r] = Append(@, ErrNoXml)]
                 /\ pc' = [pc EXCEPT ![r] = "failed"]
                 /\ UNCHANGED <<pos, sachetGeoJSONData, sinkLog>>
            ELSE IF nextXmlEntry(files, 0) = 0
                 THEN Deliver(r, allFeatures'[r])
                 ELSE StartDecode(r, nextXmlEntry(files, 0))
  /\ UNCHANGED <<loading, fileName, processedCount, file, progressLog, handled,
                 started, disturbed>>
  /\ UNCHANGED <<parseVars, storeVars>>

\* lines 66-70, then 61-66 or 77-83: the entry's text arrives
DecodeResolve(r) ==
  /\ pc[r] = "decoding"
  /\ ~file[r].files[pos[r]].corrupt
  /\ LET files == file[r].files
         parsedFeatures == parsedFeaturesOf[files[pos[r]].doc]
         all == pushFeatures(allFeatures[r], parsedFeatures)
         n   == incrementProcessed(currentProcessed[r])
         nxt == nextXmlEntry(files, pos[r])
     IN  /\ allFeatures' = [allFeatures EXCEPT ![r] = all]
         /\ currentProcessed' = [currentProcessed EXCEPT ![r] = n]
         /\ processedCount' = n
         /\ progressLog' = [progressLog EXCEPT ![r] = Append(@, n)]
         /\ handled' = [handled EXCEPT ![r] = Append(@, [entry |-> pos[r], ok |-> TRUE])]
         /\ IF nxt = 0 THEN Deliver(r, all) ELSE StartDecode(r, nxt)
  /\ UNCHANGED <<loading, fileName, totalXmlFiles, file, xmlFileCount, totalLog,
                 started, disturbed>>
  /\ UNCHANGED <<parseVars, storeVars>>

\* lines 66, 71-73, then 61-66 or 77-83: zipEntry.async rejects
DecodeReject(r) ==
  /\ pc[r] = "decoding"
  /\ file[r].files[pos[r]].corrupt
  /\ LET files == file[r].files
         nxt == afterXmlError(files, pos[r])
     IN  /\ handled' = [handled EXCEPT ![r] = Append(@, [entry |-> pos[r], ok |-> FALSE])]
         /\ IF nxt = 0 THEN Deliver(r, allFeatures[r]) ELSE StartDecode(r, nxt)
  /\ UNCHANGED <<loading, fileName, processedCount, totalXmlFiles, file,
                 allFeatures, xmlFileCount, currentProcessed, progressLog,
                 totalLog, started, disturbed>>
  /\ UNCHANGED <<parseVars, storeVars>>

\* lines 104-116: clearFile (the button is rendered when fileName is set)
ClearFile ==
  /\ ~loading
  /\ fileName # NullName
  /\ fileName' = NullName
  /\ error' = Null
  /\ processedCount' = 0
  /\ totalXmlFiles' = 0
  /\ sachetGeoJSONData' = setSachetGeoJSONData(sachetGeoJSONData, <<>>)
  /\ disturbed' = (disturbed \/ \E s \in RunIds : InFlight(s))
  /\ UNCHANGED <<loading, runVars, logVars, started>>
  /\ UNCHANGED <<parseVars, storeVars>>

Next ==
  \/ \E f \in Files : RejectFile(f)
  \/ \E r \in RunIds, f \in Files : HandleFileChange(r, f)
  \/ \E r \in RunIds : ReaderOnError(r)
  \/ \E r \in RunIds : ReaderOnLoad(r)
  \/ \E r \in RunIds : LoadAsyncReject(r)
  \/ \E r \in RunIds : LoadAsyncResolve(r)
  \/ \E r \in RunIds : DecodeResolve(r)
  \/ \E r \in RunIds : DecodeReject(r)
  \/ ClearFile

Spec == Init /\ [][Next]_vars

\* what the browser does for run r: the FileReader fires load or error (lines
\* 37, 91), the promise of JSZip.loadAsync (line 40) or of zipEntry.async
\* (line 66) settles and the continuation runs
RunStep(r) ==
  \/ ReaderOnError(r)
  \/ ReaderOnLoad(r)
  \/ LoadAsyncReject(r)
  \/ LoadAsyncResolve(r)
  \/ DecodeResolve(r)
  \/ DecodeReject(r)

\* the uploads of the behaviours checked for termination
FairNext ==
  \/ \E f \in Files : RejectFile(f)
  \/ \E r \in RunIds, f \in Files : started < MaxFairRuns /\ HandleFileChange(r, f)
  \/ \E r \in RunIds : RunStep(r)
  \/ ClearFile

\* the event loop does not starve a run: a pending event or settled promise
\* of a run is eventually delivered; nothing is assumed of the user
FairSpec ==
  Init /\ [][FairNext]_vars /\ \A r \in RunIds : WF_<<pc, pos>>(RunStep(r))

(***************************************************************************)
(* Vocabulary of the properties, written without the operators of the      *)
(* controller above.                                                       *)
(***************************************************************************)
\* a document-bearing entry: not a directory, name ending in .xml, any case
IsDocumentEntry(e) ==
  LET n == Len(e.name)
  IN  /\ ~e.dir
      /\ n >= 4
      /\ e.name[n - 3] = "."
      /\ e.name[n - 2] \in {"x", "X"}
      /\ e.name[n - 1] \in {"m", "M"}
      /\ e.name[n] \in {"l", "L"}

\* the positions of the document entries of an archive, in archive order
DocumentEntries(f) ==
  SelectSeq([i \in 1..Len(f.files) |-> i], LAMBDA i : IsDocumentEntry(f.files[i]))

TotalOf(f) == Len(DocumentEntries(f))

\* an entry whose processing fails: undecodable data or malformed markup
FailingEntry(e) == e.corrupt \/ ~e.doc.wellFormed

\* what the documents of an archive yield, failing entries left out
ExpectedFeatures(f) ==
  LET d == DocumentEntries(f)
  IN  Concat([k \in 1..Len(d) |->
                IF FailingEntry(f.files[d[k]]) THEN <<>>
                ELSE parseCapXml(f.files[d[k]].doc)])

Last(q) == q[Len(q)]

\* the position in the archive of the entry a feature was parsed from
EntryIndexOf(f, feature) ==
  CHOOSE i \in 1..Len(f.files) :
    /\ IsDocumentEntry(f.files[i])
    /\ ~f.files[i].corrupt
    /\ OrUndefined(f.files[i].doc.identifier) = feature.identifier

OrderKey(f, feature) == <<EntryIndexOf(f, feature), feature.info, feature.area>>

LexLeq(a, b) ==
  \/ a[1] < b[1]
  \/ a[1] = b[1] /\ a[2] < b[2]
  \/ a[1] = b[1] /\ a[2] = b[2] /\ a[3] <= b[3]

\* the identifiers of the documents an archive's entries decode to
Identifiers(f) ==
  {f.files[i].doc.identifier :
     i \in {j \in 1..Len(f.files) :
              IsDocumentEntry(f.files[j]) /\ ~f.files[j].corrupt}} \ {""}

(***************************************************************************)
(* C1                                                                      *)
(***************************************************************************)
\* C1: in a run over K >= 1 document entries the progress update is issued
\* once for every entry the run has finished with, whatever the entry's
\* outcome (features, empty list, or an error while decoding), so that the
\* updates are 1..K and processedCount is K when the run ends.
C1_ProgressOncePerEntry ==
  \A r \in RunIds :
    /\ Len(progressLog[r]) = Len(handled[r])
    /\ pc[r] = "done" =>
         /\ progressLog[r] = [i \in 1..TotalOf(file[r]) |-> i]
         /\ currentProcessed[r] = TotalOf(file[r])

(***************************************************************************)
(* C2                                                                      *)
(***************************************************************************)
\* C2: once a newer invocation of handleFileChange has started, a stale
\* invocation applies no progress update, no total, no error and no feature
\* delivery any more.
C2_StaleRunSuperseded ==
  [][\A r \in RunIds :
       (\E s \in RunIds : s > r /\ pc[s] # "idle") =>
         /\ progressLog'[r] = progressLog[r]
         /\ totalLog'[r] = totalLog[r]
         /\ errLog'[r] = errLog[r]
         /\ sinkLog'[r] = sinkLog[r]]_vars

(***************************************************************************)
(* C3                                                                      *)
(***************************************************************************)
\* C3: a document that is malformed or whose processing fails does not abort
\* the batch: a run over an archive with document entries ends normally, has
\* gone through every document entry in archive order, and delivers the
\* in-order concatenation of the features of the documents that did not fail.
C3_FailureDoesNotAbortBatch ==
  \A r \in RunIds :
    /\ (Terminal(r) /\ file[r].valid /\ TotalOf(file[r]) > 0
          /\ errLog[r] # <<ErrRead>>) => pc[r] = "done"
    /\ pc[r] = "done" =>
         /\ [i \in 1..Len(handled[r]) |-> handled[r][i].entry] = DocumentEntries(file[r])
         /\ \A i \in 1..Len(handled[r]) :
              handled[r][i].ok = ~file[r].files[handled[r][i].entry].corrupt
         /\ allFeatures[r] = ExpectedFeatures(file[r])
         /\ sinkLog[r] = <<ExpectedFeatures(file[r])>>
         /\ Last(errLog[r]) \in {Null, ErrNoFeatures}

\* a finished run with a failing entry followed by a document with features
C3_Witness ==
  \E r \in RunIds :
    /\ pc[r] = "done"
    /\ \E i, j \in 1..Len(file[r].files) :
         /\ i < j
         /\ IsDocumentEntry(file[r].files[i]) /\ FailingEntry(file[r].files[i])
         /\ IsDocumentEntry(file[r].files[j]) /\ ~FailingEntry(file[r].files[j])
         /\ \E k \in 1..Len(allFeatures[r]) :
              allFeatures[r][k].identifier = file[r].files[j].doc.identifier

(***************************************************************************)
(* C4                                                                      *)
(***************************************************************************)
\* C4 (as stated): a run that has processed all entries and accumulated no
\* feature records the no-features error, distinct from the empty-archive
\* error, and hands nothing to the sink; the sink only ever receives a
\* non-empty list.
C4_NoDeliveryWhenEmpty ==
  \A r \in RunIds :
    /\ (pc[r] = "done" /\ allFeatures[r] = <<>>) =>
         /\ Last(errLog[r]) = ErrNoFeatures
         /\ ErrNoFeatures # ErrNoXml
         /\ sinkLog[r] = <<>>
    /\ \A i \in 1..Len(sinkLog[r]) : sinkLog[r][i] # <<>>

\* C4 (amended): a run that has processed all entries hands its list to the
\* sink in every case; with an empty list it records the no-features error,
\* distinct from the empty-archive error, and the sink receives the empty
\* list; with a non-empty list it clears the error.
C4_NoFeaturesOutcome ==
  \A r \in RunIds :
    pc[r] = "done" =>
      IF allFeatures[r] = <<>>
      THEN /\ errLog[r] = <<ErrNoFeatures>>
           /\ ErrNoFeatures # ErrNoXml
           /\ sinkLog[r] = << <<>> >>
      ELSE /\ errLog[r] = <<Null>>
           /\ sinkLog[r] = <<allFeatures[r]>>

\* a finished run over document entries that yielded no feature
C4_Witness ==
  \E r \in RunIds :
    /\ pc[r] = "done"
    /\ TotalOf(file[r]) > 0
    /\ allFeatures[r] = <<>>
    /\ error = ErrNoFeatures

(***************************************************************************)
(* C5                                                                      *)
(***************************************************************************)
\* C5: a run over a valid archive without document entries issues no progress
\* update, decodes and parses nothing, delivers nothing, and when it ends it
\* has failed with the empty-archive error.
C5_EmptyArchive ==
  \A r \in RunIds :
    (pc[r] # "idle" /\ file[r].valid /\ TotalOf(file[r]) = 0) =>
      /\ progressLog[r] = <<>>
      /\ handled[r] = <<>>
      /\ currentProcessed[r] = 0
      /\ sinkLog[r] = <<>>
      /\ pc[r] # "decoding"
      /\ pc[r] # "done"
      /\ (pc[r] = "failed" /\ errLog[r] # <<ErrRead>>) => errLog[r] = <<ErrNoXml>>

\* a run over the archive without document entries has failed that way
C5_Witness ==
  \E r \in RunIds :
    /\ file[r].valid /\ Len(file[r].files) > 0 /\ TotalOf(file[r]) = 0
    /\ pc[r] = "failed"
    /\ errLog[r] = <<ErrNoXml>>

(***************************************************************************)
(* C6                                                                      *)
(***************************************************************************)
\* C6: a run whose buffer is not a valid archive issues no total and no
\* progress update, decodes nothing, accumulates and delivers nothing, and
\* when the buffer has been read it fails with the archive-format error,
\* which is none of the other errors.
C6_InvalidArchive ==
  \A r \in RunIds :
    (pc[r] # "idle" /\ ~file[r].valid) =>
      /\ totalLog[r] = <<>>
      /\ progressLog[r] = <<>>
      /\ handled[r] = <<>>
      /\ currentProcessed[r] = 0
      /\ allFeatures[r] = <<>>
      /\ sinkLog[r] = <<>>
      /\ pc[r] \in {"reading", "loadAsync", "failed"}
      /\ (pc[r] = "failed" /\ errLog[r] # <<ErrRead>>) =>
           /\ errLog[r] = <<ErrBadZip>>
           /\ ErrBadZip \notin {Null, ErrNoXml, ErrNoFeatures, ErrRead, ErrNotZip}

\* a run over the invalid archive has failed with the archive-format error
C6_Witness ==
  \E r \in RunIds :
    /\ ~file[r].valid
    /\ pc[r] = "failed"
    /\ errLog[r] = <<ErrBadZip>>
    /\ error = ErrBadZip

(***************************************************************************)
(* C7                                                                      *)
(***************************************************************************)
\* C7: every run accumulates into its own list: the list a run holds and the
\* list it delivers contain only features parsed from the entries of that
\* run's own archive, also when runs overlap.
C7_OwnFeaturesOnly ==
  \A r \in RunIds :
    /\ \A k \in 1..Len(allFeatures[r]) :
         allFeatures[r][k].identifier \in Identifiers(file[r])
    /\ \A i \in 1..Len(sinkLog[r]) : \A k \in 1..Len(sinkLog[r][i]) :
         sinkLog[r][i][k].identifier \in Identifiers(file[r])

\* two runs on archives without a common document have both delivered features
C7_Witness ==
  \E r, s \in RunIds :
    /\ r < s
    /\ Identifiers(file[r]) \cap Identifiers(file[s]) = {}
    /\ sinkLog[r] # <<>> /\ Last(sinkLog[r]) # <<>>
    /\ sinkLog[s] # <<>> /\ Last(sinkLog[s]) # <<>>

(***************************************************************************)
(* C8                                                                      *)
(***************************************************************************)
\* C8: a run hands its features to the sink exactly once, when it completes
\* and not before its last entry has been processed, and right after the
\* hand-over the displayed collection is exactly the list handed over.
C8_DeliveredOnceAndReplaces ==
  /\ [](\A r \in RunIds :
          /\ Len(sinkLog[r]) <= 1
          /\ (pc[r] = "done") <=> (Len(sinkLog[r]) = 1)
          /\ sinkLog[r] # <<>> =>
               /\ Len(handled[r]) = TotalOf(file[r])
               /\ sinkLog[r][1] = allFeatures[r])
  /\ [][\A r \in RunIds :
          sinkLog'[r] # sinkLog[r] =>
            sachetGeoJSONData' = Last(sinkLog'[r])]_vars

\* a second hand-over replaced a non-empty collection by another one
C8_Witness ==
  \E r, s \in RunIds :
    /\ r # s
    /\ pc[r] = "done" /\ pc[s] = "done"
    /\ Last(sinkLog[r]) # <<>> /\ Last(sinkLog[s]) # <<>>
    /\ Last(sinkLog[r]) # Last(sinkLog[s])
    /\ sachetGeoJSONData = Last(sinkLog[s])

(***************************************************************************)
(* C9                                                                      *)
(***************************************************************************)
\* C9: within a run the total is set once, by the counting pass and before the
\* first progress update, and keeps the value of the count; the progress
\* updates are 1, 2, 3, ... (each one more than the one before); and
\* 0 <= processed <= total at all times.  When no upload and no clear came
\* in while a run was in flight, the same bounds hold of the displayed
\* processedCount and totalXmlFiles.
C9_ProgressCounters ==
  /\ \A r \in RunIds :
       /\ Len(totalLog[r]) <= 1
       /\ totalLog[r] # <<>> =>
            /\ totalLog[r] = <<TotalOf(file[r])>>
            /\ xmlFileCount[r] = TotalOf(file[r])
       /\ progressLog[r] # <<>> => totalLog[r] # <<>>
       /\ progressLog[r] = [i \in 1..Len(progressLog[r]) |-> i]
       /\ currentProcessed[r] = Len(progressLog[r])
       /\ 0 <= currentProcessed[r]
       /\ currentProcessed[r] <= xmlFileCount[r]
  /\ ~disturbed => (0 <= processedCount /\ processedCount <= totalXmlFiles)

\* a run has issued its third progress update, against a total of three
C9_Witness ==
  \E r \in RunIds :
    /\ progressLog[r] = <<1, 2, 3>>
    /\ totalLog[r] = <<3>>
    /\ processedCount = 3 /\ totalXmlFiles = 3

(***************************************************************************)
(* C10                                                                     *)
(***************************************************************************)
\* C10: the feature list of a run is ordered by the position of the entry in
\* the archive's own enumeration, then by info, then by area: for features f
\* before g, (entry, info, area) of f is lexicographically <= that of g.
C10_ResultOrder ==
  \A r \in RunIds :
    /\ \A i, j \in 1..Len(allFeatures[r]) :
         i < j => LexLeq(OrderKey(file[r], allFeatures[r][i]),
                         OrderKey(file[r], allFeatures[r][j]))
    /\ \A n \in 1..Len(sinkLog[r]) : \A i, j \in 1..Len(sinkLog[r][n]) :
         i < j => LexLeq(OrderKey(file[r], sinkLog[r][n][i]),
                         OrderKey(file[r], sinkLog[r][n][j]))

\* a delivered list with features of two entries whose names are not in
\* alphabetical order, and of two infos and two areas of one document
C10_Witness ==
  \E r \in RunIds :
    /\ sinkLog[r] # <<>>
    /\ LET fs == Last(sinkLog[r])
       IN  \E i, j, k \in 1..Len(fs) :
             /\ i < j /\ j < k
             /\ EntryIndexOf(file[r], fs[i]) < EntryIndexOf(file[r], fs[j])
             /\ file[r].files[EntryIndexOf(file[r], fs[i])].name = NameFXml
             /\ file[r].files[EntryIndexOf(file[r], fs[j])].name = NameCXml
             /\ fs[j].identifier = fs[k].identifier
             /\ fs[j].info < fs[k].info
             /\ \E m \in 1..Len(fs) :
                  fs[m].info = fs[j].info /\ fs[m].area > fs[j].area

(***************************************************************************)
(* parseCapXml on its own: the call is made on one document drawn from the *)
(* inputs below.                                                           *)
(***************************************************************************)
\* longest polygon string, in tokens, of the exhaustive inputs
MaxTokens == 4
\* most polygon elements in one area of the exhaustive inputs
MaxPolygons == 3

\* tokens: "0,0" "1,0" "1,1" (numbers), "x,1" (not a number), "10" (no
\* second component), "10," (empty second component), "Infinity,0"
ParseTokens ==
  {Tok("0","0"), Tok("1","0"), Tok("1","1"), Tok("x","1"),
   <<"10">>, Tok("10",""), Tok("Infinity","0")}

\* every polygon string of 1..MaxTokens of these tokens
PolygonTexts == UNION {[1..n -> ParseTokens] : n \in 1..MaxTokens}

\* "0,0 1,1 0,0": three pairs, two distinct positions, closed
PolyDegenerate == <<Tok("0","0"), Tok("1","1"), Tok("0","0")>>
\* "x,1": nothing valid
PolyInvalid == <<Tok("x","1")>>
\* "28.6139,77.2090 0,0 1,0"
PolyDelhi == <<Tok("28.6139","77.2090"), Tok("0","0"), Tok("1","0")>>
\* a polygon element without text
PolyEmpty == <<>>

ParsePolygons == {PolyClosedA, PolyClosedB, PolyOpen, PolyShort,
                  PolyDegenerate, PolyInvalid, PolyDelhi, PolyEmpty}

\* the polygon elements of an area: 0..MaxPolygons of the strings above
PolygonLists == UNION {[1..n -> ParsePolygons] : n \in 0..MaxPolygons}

\* a document with one info and one area
AreaDoc(wellFormed, hasAlert, areaDesc, polygons) ==
  [wellFormed |-> wellFormed, hasAlert |-> hasAlert, identifier |-> "P",
   infos |-> << [event |-> "flood",
                 areas |-> << [areaDesc |-> areaDesc, polygons |-> polygons] >>] >>]

\* the call's document: one ring of every polygon string, or an area with every
\* list of polygon elements, or a document of the catalogue
ParseInit ==
  /\ UploadInit
  /\ \/ \E p \in PolygonTexts : xmlDoc = AreaDoc(TRUE, TRUE, "ring", <<p>>)
     \/ \E w \in BOOLEAN, h \in BOOLEAN, d \in {"", "north"}, ps \in PolygonLists :
          xmlDoc = AreaDoc(w, h, d, ps)
     \/ xmlDoc \in Documents
  /\ features = <<>>
  /\ parsePc = "called"
  /\ StoreInit

\* lines 35-159: the call returns its features
ParseCapXml ==
  /\ parsePc = "called"
  /\ features' = parseCapXml(xmlDoc)
  /\ parsePc' = "returned"
  /\ UNCHANGED <<xmlDoc, uploadVars, storeVars>>

ParseNext == ParseCapXml

SpecParse == ParseInit /\ [][ParseNext]_vars

(***************************************************************************)
(* Vocabulary of the parser's properties                                   *)
(***************************************************************************)
Returned == parsePc = "returned"
Walked == Returned /\ xmlDoc.wellFormed /\ xmlDoc.hasAlert

\* the (info, area) positions of the document
AreasOf(doc) ==
  UNION {{<<i, a>> : a \in 1..Len(doc.infos[i].areas)} : i \in 1..Len(doc.infos)}

AreaAt(doc, ia) == doc.infos[ia[1]].areas[ia[2]]

\* the features built from one area
FeaturesOf(fs, ia) == SelectSeq(fs, LAMBDA f : f.info = ia[1] /\ f.area = ia[2])

\* the rings of a geometry, polygon by polygon
RingsOf(geometry) ==
  CASE geometry.type = "Polygon" -> geometry.coordinates
    [] geometry.type = "MultiPolygon" -> Concat(geometry.coordinates)
    [] OTHER -> <<>>

\* the rings emitted for one area
AreaRings(fs, ia) ==
  Concat([k \in 1..Len(FeaturesOf(fs, ia)) |-> RingsOf(FeaturesOf(fs, ia)[k].geometry)])

\* the tokens of a polygon string that the filter of lines 107-114 keeps
\* (valid pairs), and the polygon strings of an area with three or more of them
\* (valid polygon strings)
KeptPairs(polyStr) == SelectSeq(polyStr, LAMBDA t : parsePair(t) # NullCoord)
ValidString(polyStr) == Len(KeptPairs(polyStr)) >= 3
ValidStrings(area) == SelectSeq(area.polygons, ValidString)

\* the positions [lon, lat] of the kept pairs "lat,lon", in input order
SwappedPositions(polyStr) ==
  [j \in 1..Len(KeptPairs(polyStr)) |->
     <<Number(KeptPairs(polyStr)[j][2]), Number(KeptPairs(polyStr)[j][1])>>]

\* a sequence of positions, closed with its first position when it is open
ClosedForm(c) == IF c[1] = c[Len(c)] THEN c ELSE Append(c, c[1])

C12_MetadataOnlyFeature ==
  Walked =>
    \A ia \in AreasOf(xmlDoc) :
      (ValidStrings(AreaAt(xmlDoc, ia)) = <<>> /\ AreaAt(xmlDoc, ia).areaDesc # "") =>
        /\ Len(FeaturesOf(features, ia)) = 1
        /\ FeaturesOf(features, ia)[1].geometry = NullGeometry
        /\ FeaturesOf(features, ia)[1].areaDesc = AreaAt(xmlDoc, ia).areaDesc

(***************************************************************************)
(* C13                                                                     *)
(***************************************************************************)
\* C13: an area with N >= 2 valid polygon strings yields exactly one feature,
\* a MultiPolygon of exactly N polygons of one ring each, the k-th ring being
\* that of the k-th valid polygon string.
C13_MultiPolygonOfN ==
  Walked =>
    \A ia \in AreasOf(xmlDoc) :
      LET valid == ValidStrings(AreaAt(xmlDoc, ia))
          fs    == FeaturesOf(features, ia)
      IN  Len(valid) >= 2 =>
            /\ Len(fs) = 1
            /\ fs[1].geometry.type = "MultiPolygon"
            /\ Len(fs[1].geometry.coordinates) = Len(valid)
            /\ \A k \in 1..Len(valid) :
                 /\ Len(fs[1].geometry.coordinates[k]) = 1
                 /\ SubSeq(fs[1].geometry.coordinates[k][1], 1, Len(KeptPairs(valid[k])))
                      = SwappedPositions(valid[k])

\* an area with two different valid polygon strings and a dropped one between
\* them has yielded its MultiPolygon
C13_Witness ==
  /\ Walked
  /\ \E ia \in AreasOf(xmlDoc) :
       /\ Len(AreaAt(xmlDoc, ia).polygons) = 3
       /\ ~ValidString(AreaAt(xmlDoc, ia).polygons[2])
       /\ Len(ValidStrings(AreaAt(xmlDoc, ia))) = 2
       /\ ValidStrings(AreaAt(xmlDoc, ia))[1] # ValidStrings(AreaAt(xmlDoc, ia))[2]
       /\ Len(FeaturesOf(features, ia)) = 1
       /\ FeaturesOf(features, ia)[1].geometry.type = "MultiPolygon"

(***************************************************************************)
(* C14                                                                     *)
(***************************************************************************)
\* C14: an area with exactly one valid polygon string yields exactly one
\* feature, a Polygon with a single ring, also when the area holds other
\* polygon strings that are dropped.
C14_SinglePolygon ==
  Walked =>
    \A ia \in AreasOf(xmlDoc) :
      LET valid == ValidStrings(AreaAt(xmlDoc, ia))
          fs    == FeaturesOf(features, ia)
      IN  Len(valid) = 1 =>
            /\ Len(fs) = 1
            /\ fs[1].geometry.type = "Polygon"
            /\ Len(fs[1].geometry.coordinates) = 1
            /\ SubSeq(fs[1].geometry.coordinates[1], 1, Len(KeptPairs(valid[1])))
                 = SwappedPositions(valid[1])

\* an area with one valid polygon string and two dropped ones has yielded its
\* Polygon
C14_Witness ==
  /\ Walked
  /\ \E ia \in AreasOf(xmlDoc) :
       /\ Len(AreaAt(xmlDoc, ia).polygons) = 3
       /\ Len(ValidStrings(AreaAt(xmlDoc, ia))) = 1
       /\ ValidString(AreaAt(xmlDoc, ia).polygons[2])
       /\ AreaAt(xmlDoc, ia).polygons[1] # <<>>
       /\ Len(FeaturesOf(features, ia)) = 1
       /\ FeaturesOf(features, ia)[1].geometry.type = "Polygon"

(***************************************************************************)
(* C15                                                                     *)
(***************************************************************************)
\* C15: every ring of every emitted geometry has the same first and last
\* position, also when the polygon string was not closed and when its first
\* or last pair was dropped.
C15_RingsClosed ==
  Returned =>
    \A n \in 1..Len(features) :
      \A k \in 1..Len(RingsOf(features[n].geometry)) :
        LET ring == RingsOf(features[n].geometry)[k]
        IN  Len(ring) > 0 /\ ring[1] = ring[Len(ring)]

\* a ring was emitted for a polygon string whose first pair was dropped and
\* whose kept pairs were not closed
C15_Witness ==
  /\ Walked
  /\ \E ia \in AreasOf(xmlDoc) :
       LET p == AreaAt(xmlDoc, ia).polygons[1]
       IN  /\ Len(AreaAt(xmlDoc, ia).polygons) = 1
           /\ Len(p) = 4
           /\ parsePair(p[1]) = NullCoord
           /\ p[2] # p[4]
           /\ Len(AreaRings(features, ia)) = 1
           /\ Len(AreaRings(features, ia)[1]) = 4

(***************************************************************************)
(* C16                                                                     *)
(***************************************************************************)
\* C16: a polygon string with fewer than 3 valid pairs after filtering is
\* dropped: the rings emitted for an area are those of its polygon strings
\* with 3 or more valid pairs, one ring each and in their order, and an area
\* without such a string yields no feature with a geometry.
C16_ShortRingsDropped ==
  Walked =>
    \A ia \in AreasOf(xmlDoc) :
      LET valid == ValidStrings(AreaAt(xmlDoc, ia))
          rings == AreaRings(features, ia)
          fs    == FeaturesOf(features, ia)
      IN  /\ Len(rings) = Len(valid)
          /\ \A k \in 1..Len(rings) :
               /\ Len(rings[k]) >= 3
               /\ SubSeq(rings[k], 1, Len(KeptPairs(valid[k]))) = SwappedPositions(valid[k])
          /\ valid = <<>> => \A n \in 1..Len(fs) : fs[n].geometry = NullGeometry

\* an area with a polygon string of two valid pairs next to a valid polygon
\* string has yielded the one ring
C16_Witness ==
  /\ Walked
  /\ \E ia \in AreasOf(xmlDoc) :
       /\ Len(AreaAt(xmlDoc, ia).polygons) = 2
       /\ Len(KeptPairs(AreaAt(xmlDoc, ia).polygons[1])) = 2
       /\ ValidString(AreaAt(xmlDoc, ia).polygons[2])
       /\ Len(AreaRings(features, ia)) = 1

(***************************************************************************)
(* C17                                                                     *)
(***************************************************************************)
\* C17: a kept pair "lat,lon" is emitted as the position [lon, lat]: the j-th
\* position of a ring has the second number of the j-th kept pair as element
\* 0 and its first number as element 1.
C17_AxisSwap ==
  Walked =>
    \A ia \in AreasOf(xmlDoc) :
      LET valid == ValidStrings(AreaAt(xmlDoc, ia))
          rings == AreaRings(features, ia)
      IN  \A k \in 1..Len(rings) :
            k <= Len(valid) =>
              \A j \in 1..Len(KeptPairs(valid[k])) :
                /\ j <= Len(rings[k])
                /\ rings[k][j][1] = Number(KeptPairs(valid[k])[j][2])
                /\ rings[k][j][2] = Number(KeptPairs(valid[k])[j][1])

\* "28.6139,77.2090" has been emitted as [77.2090, 28.6139]
C17_Witness ==
  /\ Walked
  /\ \E ia \in AreasOf(xmlDoc) :
       /\ AreaAt(xmlDoc, ia).polygons = <<PolyDelhi>>
       /\ Len(AreaRings(features, ia)) = 1
       /\ AreaRings(features, ia)[1][1] = <<Dec(77209, 3), Dec(286139, 4)>>

(***************************************************************************)
(* C18                                                                     *)
(***************************************************************************)
\* the literals of finite numbers among the components of the inputs
FiniteLiterals == {"0", "1", "10", "11", "20", "21", "28.6139", "77.2090"}

\* a token that parses to two finite numbers
FinitePair(t) == Len(t) = 2 /\ t[1] \in FiniteLiterals /\ t[2] \in FiniteLiterals

FinitePairs(polyStr) == SelectSeq(polyStr, FinitePair)

\* C18: a token is kept as a position if and only if it parses to two finite
\* numbers; a token with a missing, empty, non-numeric or infinite component
\* is dropped, alone: the ring emitted for a polygon string consists of the
\* positions of its finite pairs (plus the closing position), and a polygon
\* string is emitted exactly when it has 3 or more of them.
C18_KeptIffFinite ==
  Walked =>
    \A ia \in AreasOf(xmlDoc) :
      LET finite == SelectSeq(AreaAt(xmlDoc, ia).polygons,
                              LAMBDA p : Len(FinitePairs(p)) >= 3)
          rings  == AreaRings(features, ia)
      IN  /\ Len(rings) = Len(finite)
          /\ \A k \in 1..Len(rings) :
               k <= Len(finite) =>
                 rings[k] = ClosedForm([j \in 1..Len(FinitePairs(finite[k])) |->
                                          <<Number(FinitePairs(finite[k])[j][2]),
                                            Number(FinitePairs(finite[k])[j][1])>>])

(***************************************************************************)
(* C19                                                                     *)
(***************************************************************************)
\* C19: a ring is emitted only for a polygon string with at least 3 distinct
\* valid pairs: every emitted ring has at least 3 distinct positions.
C19_ThreeDistinctPairs ==
  Returned =>
    \A n \in 1..Len(features) :
      \A k \in 1..Len(RingsOf(features[n].geometry)) :
        LET ring == RingsOf(features[n].geometry)[k]
        IN  Cardinality({ring[j] : j \in 1..Len(ring)}) >= 3

(***************************************************************************)
(* C20                                                                     *)
(***************************************************************************)
\* C20: the ring emitted for a polygon string is the sequence of its valid
\* pairs in input order, followed by a copy of the first one if and only if
\* the first and the last differ; a ring that is closed already gets no
\* further position, and closing an emitted ring again changes nothing.
C20_ClosureAppendsOnce ==
  Walked =>
    \A ia \in AreasOf(xmlDoc) :
      LET valid == ValidStrings(AreaAt(xmlDoc, ia))
          rings == AreaRings(features, ia)
      IN  /\ Len(rings) = Len(valid)
          /\ \A k \in 1..Len(rings) :
               k <= Len(valid) =>
                 LET c == SwappedPositions(valid[k])
                 IN  /\ c[1] # c[Len(c)] => rings[k] = Append(c, c[1])
                     /\ c[1] = c[Len(c)] => rings[k] = c
                     /\ ClosedForm(rings[k]) = rings[k]

\* both cases have occurred in one area: a closed polygon string emitted as
\* it is and an open one emitted with one more position
C20_Witness ==
  /\ Walked
  /\ \E ia \in AreasOf(xmlDoc) :
       LET valid == ValidStrings(AreaAt(xmlDoc, ia))
           rings == AreaRings(features, ia)
       IN  /\ Len(valid) = 2 /\ Len(rings) = 2
           /\ Len(rings[1]) = Len(KeptPairs(valid[1]))
           /\ Len(rings[2]) = Len(KeptPairs(valid[2])) + 1

(***************************************************************************)
(* C21                                                                     *)
(***************************************************************************)
\* C21: every feature carries the alert-level fields of its document, the
\* info-level fields of the info element it was built from and the area-level
\* fields of the area element it was built from, never those of a sibling info
\* or area.
C21_OwnInfoAndArea ==
  Walked =>
    \A k \in 1..Len(features) :
      LET f == features[k]
      IN  /\ <<f.info, f.area>> \in AreasOf(xmlDoc)
          /\ f.identifier = OrUndefined(xmlDoc.identifier)
          /\ f.event = OrUndefined(xmlDoc.infos[f.info].event)
          /\ f.areaDesc = OrUndefined(AreaAt(xmlDoc, <<f.info, f.area>>).areaDesc)

\* a document with two info elements of different events and with two areas
\* of different descriptions in one of them has yielded features of both
\* infos and of both areas
C21_Witness ==
  /\ Walked
  /\ \E j, k \in 1..Len(features) :
       /\ features[j].info # features[k].info
       /\ features[j].event # features[k].event
       /\ xmlDoc.infos[features[j].info].event # xmlDoc.infos[features[k].info].event
  /\ \E j, k \in 1..Len(features) :
       /\ features[j].info = features[k].info
       /\ features[j].area # features[k].area
       /\ features[j].areaDesc # features[k].areaDesc

(***************************************************************************)
(* C22                                                                     *)
(***************************************************************************)
\* C22: the counting pass and the processing pass select the same entries:
\* the total a run reports is the number of entries that are not directories
\* and whose name ends in ".xml" in any case, and the entries the run decodes
\* are exactly those, each once, in archive order; the ones whose decode
\* succeeds are parsed.
C22_SameCandidates ==
  \A r \in RunIds :
    LET d   == DocumentEntries(file[r])
        ent == [i \in 1..Len(handled[r]) |-> handled[r][i].entry]
    IN  /\ totalLog[r] \in {<<>>, <<TotalOf(file[r])>>}
        /\ Len(ent) <= Len(d) /\ ent = SubSeq(d, 1, Len(ent))
        /\ pc[r] = "decoding" => (Len(ent) < Len(d) /\ pos[r] = d[Len(ent) + 1])
        /\ pc[r] = "done" => (ent = d /\ totalLog[r] = <<Len(ent)>>)
        /\ \A i \in 1..Len(handled[r]) :
             handled[r][i].ok = ~file[r].files[ent[i]].corrupt

\* a finished run over an archive that holds a directory, an entry of another
\* kind and a document entry named in upper case
C22_Witness ==
  \E r \in RunIds :
    /\ pc[r] = "done"
    /\ \E i \in 1..Len(file[r].files) : file[r].files[i].dir
    /\ \E i \in 1..Len(file[r].files) :
         ~file[r].files[i].dir /\ ~IsDocumentEntry(file[r].files[i])
    /\ \E i \in 1..Len(handled[r]) :
         file[r].files[handled[r][i].entry].name = NameBXML
    /\ totalLog[r] = <<2>>
    /\ Len(handled[r]) = 2

(***************************************************************************)
(* C23                                                                     *)
(***************************************************************************)
\* the decode of an entry of run r starts in this step
DecodeStarts(r) ==
  /\ pc'[r] = "decoding"
  /\ pc[r] # "decoding" \/ pos'[r] # pos[r]

\* the positions of the entries run r has finished with
FinishedEntries(h) == {h[i].entry : i \in 1..Len(h)}

\* C23: within one run the entries are processed one after the other: when
\* the decode of an entry starts, every document entry before it has been
\* finished with (decoded or failed, its features accumulated and its
\* progress update issued) and no later one has been touched; a progress
\* update is issued only for the one entry in flight, so the updates follow
\* the archive order.
C23_OneEntryAtATime ==
  [][\A r \in RunIds :
       /\ DecodeStarts(r) =>
            /\ IsDocumentEntry(file'[r].files[pos'[r]])
            /\ FinishedEntries(handled'[r]) =
                 {i \in 1..(pos'[r] - 1) : IsDocumentEntry(file'[r].files[i])}
            /\ Len(progressLog'[r]) =
                 Cardinality({i \in 1..Len(handled'[r]) : handled'[r][i].ok})
       /\ progressLog'[r] # progressLog[r] =>
            /\ pc[r] = "decoding"
            /\ handled'[r] = Append(handled[r], [entry |-> pos[r], ok |-> TRUE])
            /\ progressLog'[r] = Append(progressLog[r], Len(progressLog[r]) + 1)
            /\ \A i \in 1..Len(handled[r]) : handled[r][i].entry < pos[r]]_vars

\* a run is decoding its third document entry after a failed and a decoded
\* one, while another run is decoding too
C23_Witness ==
  \E r, s \in RunIds :
    /\ r # s
    /\ pc[r] = "decoding" /\ pc[s] = "decoding"
    /\ Len(handled[r]) = 2
    /\ Len(progressLog[r]) = 1

(***************************************************************************)
(* C24                                                                     *)
(***************************************************************************)
\* the phases of a run: Idle, Counting (the file is read, the archive opened
\* and its document entries counted), Processing, and the terminal ones
Phase(p) ==
  CASE p = "idle" -> 0
    [] p \in {"reading", "loadAsync"} -> 1
    [] p = "decoding" -> 2
    [] OTHER -> 3

\* the outcomes of a terminated run
Completed(r) ==
  /\ pc[r] = "done"
  /\ Last(errLog[r]) = Null
  /\ sinkLog[r] = <<allFeatures[r]>> /\ allFeatures[r] # <<>>

FailedWith(r) ==
  {e \in {ErrBadZip, ErrNoXml, ErrNoFeatures, ErrRead} :
     /\ errLog[r] = <<e>>
     /\ pc[r] = (IF e = ErrNoFeatures THEN "done" ELSE "failed")
     /\ sinkLog[r] = (IF e = ErrNoFeatures THEN << <<>> >> ELSE <<>>)}

\* C24: an accepted upload goes from Idle through Counting and Processing to
\* Completed or Failed, never backwards; it eventually terminates, with
\* exactly one outcome: Completed with features delivered, or Failed with one
\* of the format, empty-archive, no-features and read errors; after that the
\* run issues no progress update and no delivery.
C24_RunTerminatesOnce ==
  /\ [](\A r \in RunIds :
          Terminal(r) =>
            \/ Completed(r) /\ FailedWith(r) = {}
            \/ ~Completed(r) /\ Cardinality(FailedWith(r)) = 1)
  /\ [][\A r \in RunIds :
          /\ Phase(pc'[r]) >= Phase(pc[r])
          /\ Terminal(r) =>
               /\ pc'[r] = pc[r]
               /\ progressLog'[r] = progressLog[r]
               /\ sinkLog'[r] = sinkLog[r]
               /\ errLog'[r] = errLog[r]]_<<pc, progressLog, sinkLog, errLog>>
  /\ \A r \in RunIds : (pc[r] # "idle") ~> Terminal(r)

\* a run has completed with features after a failed and two decoded entries
C24_Witness ==
  \E r \in RunIds :
    /\ Terminal(r) /\ Completed(r)
    /\ Len(handled[r]) = 3 /\ Len(progressLog[r]) = 2

(***************************************************************************)
(* C25                                                                     *)
(***************************************************************************)
\* C25: while a run is in flight, from the accepted upload to the run's
\* terminal outcome, the loading flag is true, so that neither another upload
\* nor clearFile can start before the run has finished.
C25_LoadingWhileInFlight ==
  /\ [](\A r \in RunIds : InFlight(r) => loading)
  /\ [][(\E r \in RunIds : InFlight(r)) =>
          /\ started' = started
          /\ ~(fileName # NullName /\ fileName' = NullName)]_vars

(***************************************************************************)
(* C26                                                                     *)
(***************************************************************************)
\* the panel and the displayed collection as clearFile leaves them
ClearedPanel ==
  /\ fileName = NullName
  /\ error = Null
  /\ processedCount = 0
  /\ totalXmlFiles = 0
  /\ sachetGeoJSONData = <<>>

\* C26: once clearFile has run, the displayed collection is empty and
\* processedCount, totalXmlFiles, fileName and error are reset, and they stay
\* so until the user selects a file again: no run that was in flight at the
\* clear delivers features, progress, a total or an error afterwards.
C26_ClearIsFinal ==
  [][(ClearedPanel /\ started' = started /\ error' # ErrNotZip) => ClearedPanel']_vars

(***************************************************************************)
(* C27                                                                     *)
(***************************************************************************)
\* C27: every ring parseCapXml emits has at least 4 positions, three
\* vertices and the closing one, whatever polygon string with three valid
\* pairs it was built from, the already closed ones included.
C27_RingHasFourPositions ==
  Walked =>
    \A ia \in AreasOf(xmlDoc) :
      \A k \in 1..Len(AreaRings(features, ia)) :
        Len(AreaRings(features, ia)[k]) >= 4

(***************************************************************************)
(* C28                                                                     *)
(***************************************************************************)
\* C28: every feature handed to the sink, and so every feature the map
\* renders from sachetGeoJSONData, has a geometry that is a Polygon or a
\* MultiPolygon with at least one ring; none has a null geometry.
C28_GeometryAtTheSink ==
  /\ \A k \in 1..Len(sachetGeoJSONData) :
       /\ sachetGeoJSONData[k].geometry # NullGeometry
       /\ sachetGeoJSONData[k].geometry.type \in {"Polygon", "MultiPolygon"}
       /\ Len(RingsOf(sachetGeoJSONData[k].geometry)) >= 1
  /\ \A r \in RunIds : \A i \in 1..Len(sinkLog[r]) : \A k \in 1..Len(sinkLog[r][i]) :
       sinkLog[r][i][k].geometry.type \in {"Polygon", "MultiPolygon"}

(***************************************************************************)
(* C29                                                                     *)
(***************************************************************************)
\* C29: a run that fails at archive level (not an archive, no document
\* entry, or a read error) never invokes the sink, and no step of it changes
\* the displayed collection; nor does the rejection of a file not named
\* *.zip, which also leaves fileName, processedCount and totalXmlFiles as
\* they are.
C29_FailureLeavesDisplay ==
  /\ [](\A r \in RunIds : pc[r] = "failed" => sinkLog[r] = <<>>)
  /\ [][/\ \A r \in RunIds :
             (pc'[r] # pc[r] /\ pc'[r] # "done") =>
               sachetGeoJSONData' = sachetGeoJSONData
        /\ (error' = ErrNotZip /\ error # ErrNotZip) =>
             /\ sachetGeoJSONData' = sachetGeoJSONData
             /\ fileName' = fileName
             /\ processedCount' = processedCount
             /\ totalXmlFiles' = totalXmlFiles]_vars

\* the features of a finished run are still displayed after a later upload
\* has failed at archive level and a file not named *.zip has been rejected
C29_Witness ==
  /\ pc[1] = "done" /\ pc[2] = "failed"
  /\ errLog[2] \in {<<ErrBadZip>>, <<ErrNoXml>>, <<ErrRead>>}
  /\ error = ErrNotZip
  /\ fileName = file[2].name
  /\ sachetGeoJSONData = allFeatures[1]
  /\ sachetGeoJSONData # <<>>

(***************************************************************************)
(* The prediction store on its own.  panToLocation (line 207) is left out: *)
(* no operation reads it.                                                  *)
(***************************************************************************)
\* lines 231-236: addPrediction(result)
AddPrediction(day) ==
  /\ Len(predictionResults) < MaxPredictions
  /\ predictionResults' = Append(predictionResults, day)
  /\ selectedDay' = NullDay
  /\ UNCHANGED <<uploadVars, parseVars>>

\* lines 238-260: addBulkPredictions(results)
AddBulkPredictions(results) ==
  /\ predictionResults' = results
  /\ selectedDay' = selectedDayAfterBulk(results, selectedDay)
  /\ UNCHANGED <<uploadVars, parseVars>>

\* lines 262-264, called by handleDayChange (part_003 lines 129-131) with the
\* index of a button of the day selector (part_003 lines 223-232)
SetSelectedDay(index) ==
  /\ index \in {getAvailableDays(predictionResults)[k].index :
                  k \in 1..Len(getAvailableDays(predictionResults))}
  /\ selectedDay' = index
  /\ UNCHANGED <<predictionResults, uploadVars, parseVars>>

\* lines 266-270: clearPredictions()
ClearPredictions ==
  /\ predictionResults' = <<>>
  /\ selectedDay' = NullDay
  /\ UNCHANGED <<uploadVars, parseVars>>

StoreNext ==
  \/ \E day \in Days : AddPrediction(day)
  \/ \E n \in 0..MaxPredictions : \E results \in [1..n -> Days] :
       AddBulkPredictions(results)
  \/ \E index \in 0..(MaxDays - 1) : SetSelectedDay(index)
  \/ ClearPredictions

SpecStore == Init /\ [][StoreNext]_vars

(***************************************************************************)
(* C30                                                                     *)
(***************************************************************************)
\* C30: in the prediction store, whenever selectedDay is not null and the
\* stored predictions have at least one day, selectedDay is an index of the
\* list of distinct days, so that availableDays[selectedDay] exists.
C30_SelectedDayInRange ==
  LET availableDays == getAvailableDays(predictionResults)
  IN  (selectedDay # NullDay /\ Len(availableDays) >= 1) =>
        /\ 0 <= selectedDay /\ selectedDay < Len(availableDays)
        /\ availableDays[selectedDay + 1].date \in
             {predictionResults[i] : i \in 1..Len(predictionResults)}

\* the last of three days is selected
C30_Witness ==
  /\ selectedDay = 2
  /\ Len(getAvailableDays(predictionResults)) = 3
====
